---- MODULE Spec2Model ----
(***************************************************************************)
(* Model of package confirmation (confirmation/prompt.go): the             *)
(* Confirmation configuration, the confirmed template's construction, and  *)
(* RunPrompt, which starts the event loop, reads the decided value and     *)
(* renders the confirmed template.                                         *)
(*                                                                         *)
(* The Model type (NewModel, Update, View, Value) lives in another file of *)
(* the package; it is modelled here from the specification's section 4.2.  *)
(***************************************************************************)
EXTENDS Integers, Sequences, FiniteSets, TLC

VARIABLES
    c,       \* the Confirmation RunPrompt is called on
    m,       \* the Model of the running prompt
    tmpl,    \* the parsed confirmed template
    pc,      \* where RunPrompt is: "call", "loop", "ended", "done"
    out,     \* what has been written to each stream, in order
    ret,     \* what RunPrompt returned
    scope,   \* the data handed to tmpl.Execute, if it was called
    events,  \* what happened during the call
    keys     \* number of input events consumed

vars == <<c, m, tmpl, pc, out, ret, scope, events, keys>>

\* Number of input events one run of the event loop may consume.
MaxKeys == 2

-----------------------------------------------------------------------------
(* Value is *bool: a Value is an address, and the heap gives the boolean    *)
(* stored at each non-nil address.                                          *)

\* Undecided = Value(nil)
Undecided == 0
\* Yes = Value(&yes)
Yes == 1
\* No = Value(&no)
No == 2

\* Addresses of booleans the caller allocated itself (b := true; Value(&b)).
CallerTrue == 3
CallerFalse == 4

Values == {Undecided, Yes, No, CallerTrue, CallerFalse}

\* The boolean stored at a non-nil address (yes = true, no = false).
Deref(v) == v \in {Yes, CallerTrue}

\* fmt.Sprintf("%v", b) for a boolean.
Sprint(b) == IF b THEN "true" ELSE "false"

-----------------------------------------------------------------------------
(* Output streams.                                                          *)

OsStdout == "os.Stdout"
Streams == {OsStdout, "buffer"}

-----------------------------------------------------------------------------
(* Templates. A template text is a sequence of tokens: a token starting     *)
(* with "." is a field reference, "{{" is an unterminated action (a syntax  *)
(* error), any other token is a call of the function of that name.          *)

IsField(tok) == tok \in {".Prompt", ".FinalValue", ".FinalValueString",
                         ".DefaultYes", ".DefaultNo", ".DefaultUndecided"}
IsSyntaxError(tok) == tok = "{{"
IsCall(tok) == ~IsField(tok) /\ ~IsSyntaxError(tok)

DefaultConfirmationTemplate == <<".Prompt", ".FinalValue", "Foreground">>

\* termenv.TemplateFuncs(profile): name -> implementation.
TermenvTemplateFuncs == [n \in {"Bold", "Foreground"} |-> "termenv"]
\* promptkit.UtilFuncMap()
UtilFuncMap == [n \in {"Repeat", "Max"} |-> "promptkit"]
EmptyFuncMap == [n \in {} |-> "none"]

\* (*Template).Funcs: adds the elements of fm to the template's function
\* map, replacing the entries whose names are already there.
Funcs(t, fm) ==
    [t EXCEPT !.funcs = [n \in DOMAIN t.funcs \cup DOMAIN fm |->
                            IF n \in DOMAIN fm THEN fm[n] ELSE t.funcs[n]]]

\* template.New(name)
TemplateNew(name) == [name |-> name, funcs |-> EmptyFuncMap, tree |-> <<>>]

NilTemplate == [name |-> "nil", funcs |-> EmptyFuncMap, tree |-> <<>>]

NoErr == "nil"

\* (*Template).Parse: fails on a syntax error and on a call of a function
\* that is not in the template's function map. parsed records that the
\* parser ran.
Parse(t, text) ==
    IF \E i \in 1..Len(text) :
          \/ IsSyntaxError(text[i])
          \/ IsCall(text[i]) /\ text[i] \notin DOMAIN t.funcs
    THEN [tmpl |-> NilTemplate, err |-> "parse", parsed |-> TRUE]
    ELSE [tmpl |-> [t EXCEPT !.tree = text], err |-> NoErr, parsed |-> TRUE]

\* The text a field of the data renders to.
FieldText(data, tok) ==
    CASE tok = ".Prompt"           -> data.Prompt
      [] tok = ".FinalValue"       -> Sprint(data.FinalValue)
      [] tok = ".FinalValueString" -> data.FinalValueString
      [] tok = ".DefaultYes"       -> Sprint(data.DefaultYes)
      [] tok = ".DefaultNo"        -> Sprint(data.DefaultNo)
      [] OTHER                     -> Sprint(data.DefaultUndecided)

\* The text one token renders to.
Piece(t, data, tok) ==
    IF IsField(tok) THEN [tok |-> tok, val |-> FieldText(data, tok)]
    ELSE [tok |-> tok, val |-> t.funcs[tok]]

\* (*Template).Execute: fails when a called function returns an error.
Execute(t, data) ==
    IF \E i \in 1..Len(t.tree) : IsCall(t.tree[i]) /\ t.funcs[t.tree[i]] = "callerErr"
    THEN [text |-> <<>>, err |-> "execute"]
    ELSE [text |-> [i \in 1..Len(t.tree) |-> Piece(t, data, t.tree[i])],
          err |-> NoErr]

-----------------------------------------------------------------------------
(* Confirmation.                                                            *)

\* New(prompt)
New(prompt) ==
    [Prompt                |-> prompt,
     ConfirmationTemplate  |-> DefaultConfirmationTemplate,
     DefaultValue          |-> Undecided,
     ExtendedTemplateScope |-> EmptyFuncMap,
     Output                |-> OsStdout]

\* The overrides a caller makes between New and RunPrompt.
ConfirmationTemplates ==
    {<<>>,
     DefaultConfirmationTemplate,
     <<"Bold", ".DefaultYes", ".DefaultNo", ".DefaultUndecided">>,
     <<"Repeat", "Mine", ".FinalValueString">>,
     <<".Prompt", "{{">>}

ExtendedTemplateScopes ==
    {EmptyFuncMap,
     [n \in {"Mine"} |-> "caller"],
     [n \in {"Mine"} |-> "callerErr"],
     [n \in {"Bold", "Repeat"} |-> "caller"]}

Configurations ==
    {[New("Continue?") EXCEPT !.ConfirmationTemplate = t,
                              !.DefaultValue = d,
                              !.ExtendedTemplateScope = s,
                              !.Output = o] :
        t \in ConfirmationTemplates, d \in Values,
        s \in ExtendedTemplateScopes, o \in Streams}

\* initConfirmationTemplate with the caller's functions added first, so
\* that the built-in helpers replace them.
initConfirmationTemplate_ScopeFirst(cf) ==
    IF cf.ConfirmationTemplate = <<>>
    THEN [tmpl |-> NilTemplate, err |-> NoErr, parsed |-> FALSE]
    ELSE Parse(Funcs(Funcs(Funcs(TemplateNew("confirmed"),
                                 cf.ExtendedTemplateScope),
                           TermenvTemplateFuncs),
                     UtilFuncMap),
               cf.ConfirmationTemplate)

\* (c *Confirmation) initConfirmationTemplate()
initConfirmationTemplate(cf) ==
    IF cf.ConfirmationTemplate = <<>>
    THEN [tmpl |-> NilTemplate, err |-> NoErr, parsed |-> FALSE]
    ELSE Parse(Funcs(Funcs(Funcs(TemplateNew("confirmed"),
                                 TermenvTemplateFuncs),
                           UtilFuncMap),
                     cf.ExtendedTemplateScope),
               cf.ConfirmationTemplate)

-----------------------------------------------------------------------------
(* Model: the state of the running prompt (specification, sections 3, 4.2). *)

Actions == {"SelectYes", "SelectNo", "Toggle", "Submit", "Abort", "Unmapped"}
Widths == {80}

\* NewModel(c): the Model embeds the Confirmation and starts at its default.
NewModel(cf) ==
    [Prompt       |-> cf.Prompt,
     DefaultValue |-> cf.DefaultValue,
     value        |-> cf.DefaultValue,
     width        |-> 0,
     Err          |-> NoErr,
     quitting     |-> FALSE]

\* Toggle flips Yes and No and leaves Undecided alone.
Toggle(v) ==
    IF v = Undecided THEN Undecided
    ELSE IF Deref(v) THEN No ELSE Yes

\* (m *Model) Update for a key message that maps to the logical action a.
Update(mm, a) ==
    CASE a = "Abort"     -> [mm EXCEPT !.Err = "aborted", !.quitting = TRUE]
      [] a = "Submit"    -> [mm EXCEPT !.quitting = TRUE]
      [] a = "SelectYes" -> [mm EXCEPT !.value = Yes]
      [] a = "SelectNo"  -> [mm EXCEPT !.value = No]
      [] a = "Toggle"    -> [mm EXCEPT !.value = Toggle(mm.value)]
      [] OTHER           -> mm

\* promptkit.Wrap(text, width): the text, broken at the given width.
Wrap(text, width) == [text |-> text, width |-> width]

\* (m *Model) View: the live template rendered for the current value.
View(mm) ==
    Wrap(<<[tok |-> ".YesSelected",
            val |-> Sprint(mm.value # Undecided /\ Deref(mm.value))],
           [tok |-> ".NoSelected",
            val |-> Sprint(mm.value # Undecided /\ ~Deref(mm.value))]>>,
         mm.width)

\* (m *Model) Value: the cancellation error after an Abort, else the
\* boolean the value stands for, false when it is Undecided.
ModelValue(mm) ==
    IF mm.Err # NoErr THEN [value |-> FALSE, err |-> mm.Err]
    ELSE [value |-> mm.value # Undecided /\ Deref(mm.value), err |-> NoErr]

-----------------------------------------------------------------------------
(* RunPrompt.                                                               *)

NoRet == [value |-> FALSE, err |-> "pending"]
Chunk(kind, wrapped, ok) ==
    [kind |-> kind, text |-> wrapped.text, width |-> wrapped.width, ok |-> ok]

\* RunPromptEnter with the error of initConfirmationTemplate dropped.
RunPromptEnter_IgnoreErr(cf) ==
    LET r == initConfirmationTemplate(cf) IN
    [done |-> FALSE, tmpl |-> r.tmpl, parsed |-> r.parsed,
     parseErr |-> r.err, ret |-> NoRet]

\* RunPrompt up to the construction of the model: the confirmed template
\* is initialised and a failure ends the call.
RunPromptEnter(cf) ==
    LET r == initConfirmationTemplate(cf) IN
    IF r.err # NoErr
    THEN [done |-> TRUE, tmpl |-> r.tmpl, parsed |-> r.parsed,
          parseErr |-> r.err,
          ret |-> [value |-> FALSE,
                   err |-> "initializing confirmation template"]]
    ELSE [done |-> FALSE, tmpl |-> r.tmpl, parsed |-> r.parsed,
          parseErr |-> r.err, ret |-> NoRet]

\* The map handed to tmpl.Execute.
TemplateData(mm, value) ==
    [FinalValue       |-> value,
     FinalValueString |-> Sprint(value),
     Prompt           |-> mm.Prompt,
     DefaultYes       |-> mm.DefaultValue = Yes,
     DefaultNo        |-> mm.DefaultValue = No,
     DefaultUndecided |-> mm.DefaultValue = Undecided,
     TerminalWidth    |-> mm.width]

\* The stream the confirmed render is printed to.
ConfirmedWriter(cf) == OsStdout

\* What the rest of RunPrompt does: the pair it returns, the writes it
\* makes and the data it hands to Execute (none: <<>>).
Result(value, err, writes, sc) ==
    [ret |-> [value |-> value, err |-> err], writes |-> writes, scope |-> sc]

\* fmt.Fprint(w, promptkit.Wrap(text, m.width)); ok is whether it succeeds.
ConfirmedWrite(cf, mm, text, ok) ==
    <<[stream |-> ConfirmedWriter(cf),
       chunk  |-> Chunk("confirmed", Wrap(text, mm.width), ok)]>>

\* RunPromptTail with the error of m.Value() dropped.
RunPromptTail_IgnoreReadErr(cf, mm, t, writeOK) ==
    LET v    == ModelValue(mm)
        data == TemplateData(mm, v.value)
        x    == Execute(t, data)
    IN IF cf.ConfirmationTemplate = <<>>
       THEN Result(v.value, NoErr, <<>>, <<>>)
       ELSE IF x.err # NoErr
       THEN Result(v.value, "execute confirmation template", <<>>, <<data>>)
       ELSE Result(v.value, IF writeOK THEN NoErr ELSE "write",
                   ConfirmedWrite(cf, mm, x.text, writeOK), <<data>>)

\* RunPromptTail returning false, not the value, with an Execute error.
RunPromptTail_FalseOnExecErr(cf, mm, t, writeOK) ==
    LET v    == ModelValue(mm)
        data == TemplateData(mm, v.value)
        x    == Execute(t, data)
    IN IF v.err # NoErr
       THEN Result(FALSE, "reading value", <<>>, <<>>)
       ELSE IF cf.ConfirmationTemplate = <<>>
       THEN Result(v.value, NoErr, <<>>, <<>>)
       ELSE IF x.err # NoErr
       THEN Result(FALSE, "execute confirmation template", <<>>, <<data>>)
       ELSE Result(v.value, IF writeOK THEN NoErr ELSE "write",
                   ConfirmedWrite(cf, mm, x.text, writeOK), <<data>>)

\* RunPromptTail with the error of Execute dropped: nothing is written and
\* nil is returned.
RunPromptTail_SwallowExecErr(cf, mm, t, writeOK) ==
    LET v    == ModelValue(mm)
        data == TemplateData(mm, v.value)
        x    == Execute(t, data)
    IN IF v.err # NoErr
       THEN Result(FALSE, "reading value", <<>>, <<>>)
       ELSE IF cf.ConfirmationTemplate = <<>>
       THEN Result(v.value, NoErr, <<>>, <<>>)
       ELSE IF x.err # NoErr
       THEN Result(v.value, NoErr, <<>>, <<data>>)
       ELSE Result(v.value, IF writeOK THEN NoErr ELSE "write",
                   ConfirmedWrite(cf, mm, x.text, writeOK), <<data>>)

\* RunPromptTail returning the zero boolean where the template is empty.
RunPromptTail_FalseOnEmpty(cf, mm, t, writeOK) ==
    LET v    == ModelValue(mm)
        data == TemplateData(mm, v.value)
        x    == Execute(t, data)
    IN IF v.err # NoErr
       THEN Result(FALSE, "reading value", <<>>, <<>>)
       ELSE IF cf.ConfirmationTemplate = <<>>
       THEN Result(FALSE, NoErr, <<>>, <<>>)
       ELSE IF x.err # NoErr
       THEN Result(v.value, "execute confirmation template", <<>>, <<data>>)
       ELSE Result(v.value, IF writeOK THEN NoErr ELSE "write",
                   ConfirmedWrite(cf, mm, x.text, writeOK), <<data>>)

\* RunPromptTail without the test for an empty confirmed template.
RunPromptTail_NoEmptyCheck(cf, mm, t, writeOK) ==
    LET v    == ModelValue(mm)
        data == TemplateData(mm, v.value)
        x    == Execute(t, data)
    IN IF v.err # NoErr
       THEN Result(FALSE, "reading value", <<>>, <<>>)
       ELSE IF x.err # NoErr
       THEN Result(v.value, "execute confirmation template", <<>>, <<data>>)
       ELSE Result(v.value, IF writeOK THEN NoErr ELSE "write",
                   ConfirmedWrite(cf, mm, x.text, writeOK), <<data>>)

\* RunPromptTail printing the buffer before it looks at Execute's error.
RunPromptTail_WriteBeforeErrCheck(cf, mm, t, writeOK) ==
    LET v    == ModelValue(mm)
        data == TemplateData(mm, v.value)
        x    == Execute(t, data)
    IN IF v.err # NoErr
       THEN Result(FALSE, "reading value", <<>>, <<>>)
       ELSE IF cf.ConfirmationTemplate = <<>>
       THEN Result(v.value, NoErr, <<>>, <<>>)
       ELSE IF x.err # NoErr
       THEN Result(v.value, "execute confirmation template",
                   ConfirmedWrite(cf, mm, x.text, writeOK), <<data>>)
       ELSE Result(v.value, IF writeOK THEN NoErr ELSE "write",
                   ConfirmedWrite(cf, mm, x.text, writeOK), <<data>>)

\* RunPrompt after p.Start() returned without an error: the value is read,
\* and unless the confirmed template is empty it is executed into a buffer
\* and the buffer is printed. writeOK is whether that print succeeds.
RunPromptTail(cf, mm, t, writeOK) ==
    LET v    == ModelValue(mm)
        data == TemplateData(mm, v.value)
        x    == Execute(t, data)
    IN IF v.err # NoErr
       THEN Result(FALSE, "reading value", <<>>, <<>>)
       ELSE IF cf.ConfirmationTemplate = <<>>
       THEN Result(v.value, NoErr, <<>>, <<>>)
       ELSE IF x.err # NoErr
       THEN Result(v.value, "execute confirmation template", <<>>, <<data>>)
       ELSE Result(v.value, IF writeOK THEN NoErr ELSE "write",
                   ConfirmedWrite(cf, mm, x.text, writeOK), <<data>>)

\* The streams after the writes ws, made in order.
RECURSIVE Written(_, _)
Written(o, ws) ==
    IF ws = <<>> THEN o
    ELSE Written([o EXCEPT ![Head(ws).stream] = Append(@, Head(ws).chunk)],
                 Tail(ws))

-----------------------------------------------------------------------------
(* The state machine.                                                       *)

Init ==
    /\ c \in Configurations
    /\ m = NewModel(c)
    /\ tmpl = NilTemplate
    /\ pc = "call"
    /\ out = [s \in Streams |-> <<>>]
    /\ ret = NoRet
    /\ scope = <<>>
    /\ events = {}
    /\ keys = 0

\* RunPrompt is called: the template is initialised and, unless that
\* fails, the program starts and shows the first view.
RunPromptCall ==
    /\ pc = "call"
    /\ LET r == RunPromptEnter(c)
       IN /\ tmpl' = r.tmpl
          /\ events' = events
                \cup (IF r.parsed THEN {"parsed"} ELSE {})
                \cup (IF r.parseErr # NoErr THEN {"parseFailed"} ELSE {})
                \cup (IF r.done THEN {} ELSE {"loopStarted"})
          /\ IF r.done
             THEN /\ pc' = "done"
                  /\ ret' = r.ret
                  /\ UNCHANGED <<m, out>>
             ELSE /\ pc' = "loop"
                  /\ m' = NewModel(c)
                  /\ out' = [out EXCEPT ![c.Output] =
                                Append(@, Chunk("live", View(NewModel(c)), TRUE))]
                  /\ UNCHANGED ret
    /\ UNCHANGED <<c, scope, keys>>

\* The event loop delivers a key message; the model is updated and the
\* view is rendered again. Submit and Abort end the loop.
KeyMsg ==
    /\ pc = "loop"
    /\ keys < MaxKeys
    /\ \E a \in Actions :
         LET n == Update(m, a) IN
         /\ m' = n
         /\ out' = [out EXCEPT ![c.Output] = Append(@, Chunk("live", View(n), TRUE))]
         /\ pc' = IF n.quitting THEN "ended" ELSE "loop"
         /\ events' = events \cup {"keyConsumed"}
                \cup (IF a = "Submit" THEN {"submitted"} ELSE {})
                \cup (IF a = "Abort" THEN {"aborted"} ELSE {})
    /\ keys' = keys + 1
    /\ UNCHANGED <<c, tmpl, ret, scope>>

\* The event loop delivers a resize: only the width changes.
WindowSizeMsg ==
    /\ pc = "loop"
    /\ keys < MaxKeys
    /\ \E w \in Widths :
         /\ m' = [m EXCEPT !.width = w]
         /\ out' = [out EXCEPT ![c.Output] =
                       Append(@, Chunk("live", View([m EXCEPT !.width = w]), TRUE))]
    /\ keys' = keys + 1
    /\ UNCHANGED <<c, tmpl, pc, ret, scope, events>>

\* p.Start() returns an error: the program could not start or lost the
\* terminal.
StartError ==
    /\ pc = "loop"
    /\ pc' = "done"
    /\ ret' = [value |-> FALSE, err |-> "running prompt"]
    /\ events' = events \cup {"loopFailed"}
    /\ UNCHANGED <<c, m, tmpl, out, scope, keys>>

\* p.Start() returned nil: the value is read and the confirmed template
\* rendered and written.
RunPromptReturn ==
    /\ pc = "ended"
    /\ \E writeOK \in BOOLEAN :
         LET r == RunPromptTail(c, m, tmpl, writeOK)
             x == Execute(tmpl, TemplateData(m, ModelValue(m).value))
         IN /\ ret' = r.ret
            /\ out' = Written(out, r.writes)
            /\ scope' = r.scope
            /\ events' = events
                 \cup (IF r.scope # <<>> /\ x.err # NoErr
                       THEN {"execFailed"} ELSE {})
                 \cup (IF \E i \in 1..Len(r.writes) : ~r.writes[i].chunk.ok
                       THEN {"writeFailed"} ELSE {})
    /\ pc' = "done"
    /\ UNCHANGED <<c, m, tmpl, keys>>

Next ==
    \/ RunPromptCall
    \/ KeyMsg
    \/ WindowSizeMsg
    \/ StartError
    \/ RunPromptReturn

Spec == Init /\ [][Next]_vars

-----------------------------------------------------------------------------
(* Properties.                                                              *)

\* The positions in stream s at which a confirmed render was written.
ConfirmedAt(s) == {i \in 1..Len(out[s]) : out[s][i].kind = "confirmed"}

\* How many times the confirmed render was written, over all streams.
ConfirmedWrites ==
    Cardinality(UNION {{<<s, i>> : i \in ConfirmedAt(s)} : s \in Streams})

\* coercion(Yes) = true, coercion(No) = false, coercion(Undecided) = false.
Coercion(v) == IF v = Undecided THEN FALSE ELSE Deref(v)

Submitted == pc = "done" /\ "submitted" \in events
Aborted == pc = "done" /\ "aborted" \in events

\* C1: the confirmed render is written to the configured Output and to no
\* other stream.
C1_ConfirmedRenderOnlyOnOutput ==
    \A s \in Streams : s # c.Output => ConfirmedAt(s) = {}

\* C2, as claimed: RunPrompt's error is non-nil exactly when the template
\* failed to parse, failed to execute, the event loop failed, or the user
\* aborted.
C2_ErrorExactlyOnFourCauses ==
    pc = "done" =>
        (ret.err # NoErr <=>
            events \cap {"parseFailed", "execFailed", "loopFailed", "aborted"} # {})

\* C2, amended: RunPrompt's error is non-nil exactly when the template
\* failed to parse, failed to execute, the event loop failed, the user
\* aborted, or the final write of the rendered text failed.
C2_ErrorExactlyOnFiveCauses ==
    pc = "done" =>
        (ret.err # NoErr <=>
            events \cap {"parseFailed", "execFailed", "loopFailed", "aborted",
                         "writeFailed"} # {})

C2_Witness ==
    /\ pc = "done"
    /\ "writeFailed" \in events
    /\ events \cap {"parseFailed", "execFailed", "loopFailed", "aborted"} = {}
    /\ ret.err # NoErr

\* C3: after a Submit the returned decision is the coercion of the Value
\* held at the Submit, and reading the value reports no error: a Submit on
\* Undecided returns false with a nil error when the render goes through.
C3_SubmitReturnsCoercion ==
    Submitted =>
        /\ ret.value = Coercion(m.value)
        /\ ret.err # "reading value"
        /\ events \cap {"execFailed", "writeFailed"} = {} => ret.err = NoErr

C3_Witness ==
    /\ Submitted
    /\ c.DefaultValue = Yes
    /\ keys = 1
    /\ ret = [value |-> TRUE, err |-> NoErr]

\* C4: after an Abort, whatever the Value was, the run is Aborted and
\* RunPrompt returns false with a non-nil error.
C4_AbortReturnsFalseAndError ==
    Aborted =>
        /\ m.quitting
        /\ m.Err # NoErr
        /\ ret.value = FALSE
        /\ ret.err # NoErr

C4_Witness ==
    /\ Aborted
    /\ m.value = Yes
    /\ ret.value = FALSE
    /\ ret.err = "reading value"

\* C5: when the confirmed template's execution fails after a Submit, the
\* error is non-nil and the decision returned is the submitted one.
C5_ExecErrorKeepsDecision ==
    "execFailed" \in events =>
        /\ pc = "done"
        /\ "submitted" \in events
        /\ ret.err # NoErr
        /\ ret.value = Coercion(m.value)

C5_Witness ==
    /\ "execFailed" \in events
    /\ ret.value = TRUE
    /\ ret.err = "execute confirmation template"

\* C6: when the non-empty confirmed template fails to parse, RunPrompt
\* returns false and an error at once: the event loop is not started, no
\* key is consumed and nothing is written to any stream.
C6_ParseErrorReturnsAtOnce ==
    "parseFailed" \in events =>
        /\ pc = "done"
        /\ ret.value = FALSE
        /\ ret.err # NoErr
        /\ events \cap {"loopStarted", "keyConsumed"} = {}
        /\ keys = 0
        /\ \A s \in Streams : out[s] = <<>>

C6_Witness ==
    /\ "parseFailed" \in events
    /\ c.ConfirmationTemplate # <<>>
    /\ ret = [value |-> FALSE, err |-> "initializing confirmation template"]

\* C7: with an empty confirmed template nothing is parsed, and after a
\* Submit RunPrompt returns the decision and nil having written nothing
\* but the live views: one at the start, one for each event.
C7_EmptyTemplateWritesNothing ==
    c.ConfirmationTemplate = <<>> =>
        /\ "parsed" \notin events
        /\ Submitted =>
            /\ ret = [value |-> Coercion(m.value), err |-> NoErr]
            /\ \A s \in Streams :
                 /\ ConfirmedAt(s) = {}
                 /\ Len(out[s]) = IF s = c.Output THEN keys + 1 ELSE 0

C7_Witness ==
    /\ c.ConfirmationTemplate = <<>>
    /\ Submitted
    /\ ret = [value |-> TRUE, err |-> NoErr]
    /\ Len(out[c.Output]) = 3

\* C8: the confirmed render is written once (one print of it is made,
\* whether or not the stream takes it) when the run ended Submitted with a
\* non-empty confirmed template that executed without an error, and never
\* otherwise; it is not written while RunPrompt has not returned.
C8_ConfirmedWrittenOnce ==
    ConfirmedWrites =
        IF /\ Submitted
           /\ c.ConfirmationTemplate # <<>>
           /\ "execFailed" \notin events
        THEN 1 ELSE 0

C8_Witness ==
    /\ Submitted
    /\ ConfirmedWrites = 1
    /\ Len(out[OsStdout]) > 1
    /\ ConfirmedAt(OsStdout) = {Len(out[OsStdout])}

\* C9: in the parsed confirmed template every name of the caller's
\* ExtendedTemplateScope is bound to the caller's function, also when a
\* built-in helper has that name; every other built-in name keeps its
\* built-in function.
C9_CallerFunctionsWin ==
    (c.ConfirmationTemplate # <<>> /\ "loopStarted" \in events) =>
        /\ DOMAIN tmpl.funcs = DOMAIN TermenvTemplateFuncs \cup DOMAIN UtilFuncMap
                                 \cup DOMAIN c.ExtendedTemplateScope
        /\ \A n \in DOMAIN tmpl.funcs :
             tmpl.funcs[n] =
                IF n \in DOMAIN c.ExtendedTemplateScope
                THEN c.ExtendedTemplateScope[n]
                ELSE IF n \in DOMAIN UtilFuncMap THEN UtilFuncMap[n]
                ELSE TermenvTemplateFuncs[n]

C9_Witness ==
    /\ Submitted
    /\ c.ConfirmationTemplate = <<"Bold", ".DefaultYes", ".DefaultNo", ".DefaultUndecided">>
    /\ "Bold" \in DOMAIN c.ExtendedTemplateScope
    /\ tmpl.funcs["Bold"] = "caller"
    /\ tmpl.funcs["Foreground"] = "termenv"
    /\ \E i \in ConfirmedAt(OsStdout) :
         out[OsStdout][i].text[1] = [tok |-> "Bold", val |-> "caller"]

\* C10: of DefaultYes, DefaultNo and DefaultUndecided handed to the
\* confirmed template exactly one is true, the one that matches the
\* boolean the DefaultValue refers to.
C10_ExactlyOneDefaultFlag ==
    scope # <<>> =>
        LET d == scope[1] IN
        /\ d.DefaultUndecided <=> c.DefaultValue = Undecided
        /\ d.DefaultYes <=> (c.DefaultValue # Undecided /\ Deref(c.DefaultValue))
        /\ d.DefaultNo <=> (c.DefaultValue # Undecided /\ ~Deref(c.DefaultValue))

====
